---- MODULE Spec2Model ----
(***************************************************************************)
(* tv-streamer, app_files/app.py: the batch capture path (process_stream,  *)
(* capture_stream, _ffprobe_has_audio, upload_to_gcs) and the signed-URL   *)
(* path (_list_signed, _sign, _build_signing_credentials).                 *)
(*                                                                         *)
(* The application is served by gunicorn worker processes (app.py:608-609, *)
(* "-w 2"): every worker handles one request at a time and has its own     *)
(* module globals; the bucket and the scratch disk are shared.             *)
(*                                                                         *)
(* A local file is modelled by its sequence number (frame_%04d.webp,       *)
(* chunk_%03d.ogg); the bounds stay far below the widths 9999 / 999 where  *)
(* filename order and numeric order part.  file_name gives the name of a   *)
(* sequence number and name_before the order sorted() puts names in.       *)
(***************************************************************************)
EXTENDS Integers, Sequences, FiniteSets, TLC

\* ---- bounds of the model
NumWorkers == 2
MaxCycles == 2
MaxFrames == 2
MaxAudio == 1

\* ---- program constants
\* timeout=25 of the probe; subprocess.run of ffmpeg is given none
PROBE_TIMEOUT == 25
NO_TIMEOUT == 0
\* "-start_number", "1"; chunk_%03d.ogg is numbered by the segment muxer from 0
START_NUMBER == 1
SEGMENT_START == 0
\* the widths of frame_%04d.webp and chunk_%03d.ogg
FRAME_DIGITS == 4
CHUNK_DIGITS == 3

Workers == 1..NumWorkers
StreamIds == {1, 2}
ADMIN_STREAM == {1}

VARIABLES
    stream_url,           \* streams table: stream id -> url ("" when unset)
    storage,              \* bucket: object name -> bytes (the cycle that wrote them)
    scratch,              \* scratch directories on disk, named by their cycle
    children,             \* live child processes
    nextCycle,            \* number of the next capture cycle
    cs,                   \* per worker: the request in progress and its locals
    signing_credentials,  \* per worker process: the global _signing_credentials
    lastSign              \* per worker process: what the last _sign call did

vars == <<stream_url, storage, scratch, children, nextCycle, cs,
          signing_credentials, lastSign>>

\* ---- names and pure helpers

ObjectName(stream_id, kind, name) == <<stream_id, kind, name>>

\* a listing taken in descending order
RECURSIVE sorted_descending(_)
sorted_descending(S) ==
    IF S = {} THEN <<>>
    ELSE LET m == CHOOSE x \in S : \A y \in S : y <= x
         IN <<m>> \o sorted_descending(S \ {m})

RECURSIVE sorted(_)
sorted(S) ==
    IF S = {} THEN <<>>
    ELSE LET m == CHOOSE x \in S : \A y \in S : x <= y
         IN <<m>> \o sorted(S \ {m})

Put(st, name, bytes) ==
    [n \in DOMAIN st \cup {name} |-> IF n = name THEN bytes ELSE st[n]]

upload_to_gcs(st, name, stream_id, kind, bytes) ==
    Put(st, ObjectName(stream_id, kind, name), bytes)

Listed(st, stream_id, kind) ==
    {n \in DOMAIN st : n[1] = stream_id /\ n[2] = kind}

NO_RESPONSE == 0

IdleSession ==
    [pc |-> "idle", stream_id |-> 0, cyc |-> 0, has_audio |-> FALSE,
     probe |-> "none", frames_dir |-> {}, audio_dir |-> {}, todo |-> <<>>,
     up_frames |-> 0, up_audio |-> 0, cmds |-> <<>>, proc |-> <<>>,
     uploads |-> <<>>, response |-> NO_RESPONSE]

\* a request is over: its locals are gone, the worker is idle again and the
\* response is what is left of the request
Responded(status) == [IdleSession EXCEPT !.response = status]

NoSign == [called |-> FALSE, cached |-> "none", built |-> FALSE]

Init ==
    /\ stream_url = [s \in StreamIds |-> ""]
    /\ storage = <<>>
    /\ scratch = {}
    /\ children = {}
    /\ nextCycle = 1
    /\ cs = [w \in Workers |-> IdleSession]
    /\ signing_credentials = [w \in Workers |-> "none"]
    /\ lastSign = [w \in Workers |-> NoSign]

\* ---- /admin: POST with a non-empty url saves it for stream 1

admin ==
    /\ stream_url' = [s \in StreamIds |-> IF s \in ADMIN_STREAM THEN "url" ELSE stream_url[s]]
    /\ UNCHANGED <<storage, scratch, children, nextCycle, cs,
                   signing_credentials, lastSign>>

\* ---- /process/<stream_id>

BeginCycle(stream_id) ==
    [IdleSession EXCEPT !.stream_id = stream_id, !.cyc = nextCycle]

\* process_stream with no url stored: abort(400), no capture cycle
process_stream_no_url(w, s) ==
    /\ cs[w].pc = "idle"
    /\ stream_url[s] = ""
    /\ cs' = [cs EXCEPT ![w] = Responded(400)]
    /\ UNCHANGED <<stream_url, storage, scratch, children, nextCycle,
                   signing_credentials, lastSign>>

\* (mutant) _ffprobe_has_audio without its except branch: the exception reaches
\* process_stream, which answers 500
ffprobe_raises(sess, why) == Responded(500)

\* _ffprobe_has_audio: the except branch, "assuming no audio"
ffprobe_failed(sess, why) ==
    [sess EXCEPT !.probe = why, !.has_audio = FALSE, !.pc = "ffmpeg"]

\* _ffprobe_has_audio: the try branch, bool(info.get("streams"))
ffprobe_returned(sess, streams) ==
    [sess EXCEPT !.probe = IF streams > 0 THEN "audio" ELSE "noaudio",
                 !.has_audio = (streams > 0), !.pc = "ffmpeg"]

\* (mutant) the timeout is raised and the child is left running
leave_running(ch, c) == ch

\* subprocess.check_output(..., timeout=25) on expiry: kill the child, wait for it
kill_and_reap(ch, c) == ch \ {c}

ChildOf(w, prog) ==
    CHOOSE c \in children : c.cyc = cs[w].cyc /\ c.prog = prog

\* process_stream -> capture_stream -> _ffprobe_has_audio, up to the spawn of ffprobe
process_stream(w, s) ==
    /\ cs[w].pc = "idle"
    /\ nextCycle <= MaxCycles
    /\ stream_url[s] # ""
    /\ nextCycle' = nextCycle + 1
    /\ \/ /\ children' = children \cup
                {[cyc |-> nextCycle, prog |-> "ffprobe", timeout |-> PROBE_TIMEOUT]}
          /\ cs' = [cs EXCEPT ![w] = [BeginCycle(s) EXCEPT !.pc = "ffprobe"]]
       \/ /\ children' = children
          /\ cs' = [cs EXCEPT ![w] = ffprobe_failed(BeginCycle(s), "error")]
    /\ UNCHANGED <<stream_url, storage, scratch, signing_credentials, lastSign>>

\* ffprobe exits by itself: with a stream list, or with an error / unreadable output
ffprobe_exit(w, ok, streams) ==
    /\ cs[w].pc = "ffprobe"
    /\ children' = children \ {ChildOf(w, "ffprobe")}
    /\ cs' = [cs EXCEPT ![w] = IF ok THEN ffprobe_returned(cs[w], streams)
                               ELSE ffprobe_failed(cs[w], "error")]
    /\ UNCHANGED <<stream_url, storage, scratch, nextCycle,
                   signing_credentials, lastSign>>

\* ffprobe is still running after its timeout
ffprobe_timeout(w) ==
    /\ cs[w].pc = "ffprobe"
    /\ ChildOf(w, "ffprobe").timeout # NO_TIMEOUT
    /\ children' = kill_and_reap(children, ChildOf(w, "ffprobe"))
    /\ cs' = [cs EXCEPT ![w] = ffprobe_failed(cs[w], "timeout")]
    /\ UNCHANGED <<stream_url, storage, scratch, nextCycle,
                   signing_credentials, lastSign>>

\* the ffmpeg command of the cycle: vid_part, and aud_part when has_audio
build_cmd(has_audio) ==
    [start_number |-> START_NUMBER, vid |-> "0:v:0",
     aud |-> IF has_audio THEN "0:a:0" ELSE "none"]

\* tempfile.mkdtemp + makedirs, then subprocess.run spawns ffmpeg
ffmpeg_spawn(w) ==
    /\ cs[w].pc = "ffmpeg"
    /\ scratch' = scratch \cup {cs[w].cyc}
    /\ children' = children \cup
            {[cyc |-> cs[w].cyc, prog |-> "ffmpeg", timeout |-> NO_TIMEOUT]}
    /\ cs' = [cs EXCEPT ![w].cmds = Append(@, build_cmd(cs[w].has_audio)),
                        ![w].pc = "ffmpeg_wait"]
    /\ UNCHANGED <<stream_url, storage, nextCycle, signing_credentials, lastSign>>

\* process_stream's except branch: abort(500, "Processing failed: ...")
process_failed == Responded(500)

\* tempfile.mkdtemp + makedirs, then subprocess.run cannot spawn ffmpeg and raises
ffmpeg_spawn_fails(w) ==
    /\ cs[w].pc = "ffmpeg"
    /\ scratch' = scratch \cup {cs[w].cyc}
    /\ cs' = [cs EXCEPT ![w] = process_failed]
    /\ UNCHANGED <<stream_url, storage, children, nextCycle,
                   signing_credentials, lastSign>>

\* the audio loop has nothing left: rmtree and the return are next
after_audio(sess) ==
    IF sess.pc = "audio" /\ sess.todo = <<>>
    THEN [sess EXCEPT !.pc = "rmtree"]
    ELSE sess

\* the frames loop has nothing left: the audio directory is listed when has_audio
after_frames(sess) ==
    IF sess.pc = "frames" /\ sess.todo = <<>>
    THEN IF sess.has_audio
         THEN after_audio([sess EXCEPT !.pc = "audio",
                                       !.todo = sorted(sess.audio_dir)])
         ELSE [sess EXCEPT !.pc = "rmtree"]
    ELSE sess

\* ffmpeg exits with rc, having written k frames and a audio segments; the
\* return code is only logged, and the frames directory is listed
ffmpeg_exit(w, rc, k, a) ==
    /\ cs[w].pc = "ffmpeg_wait"
    /\ a > 0 => cs[w].cmds[Len(cs[w].cmds)].aud # "none"
    /\ children' = children \ {ChildOf(w, "ffmpeg")}
    /\ LET cmd == cs[w].cmds[Len(cs[w].cmds)]
           frames == cmd.start_number .. (cmd.start_number + k - 1)
           audio == SEGMENT_START .. (SEGMENT_START + a - 1)
       IN cs' = [cs EXCEPT ![w] = after_frames(
                    [cs[w] EXCEPT !.proc = Append(@, rc),
                                  !.frames_dir = frames,
                                  !.audio_dir = audio,
                                  !.todo = sorted(frames),
                                  !.pc = "frames"])]
    /\ UNCHANGED <<stream_url, storage, scratch, nextCycle,
                   signing_credentials, lastSign>>

\* one pass of the frames loop: upload_to_gcs succeeds
upload_frame(w) ==
    /\ cs[w].pc = "frames"
    /\ cs[w].todo # <<>>
    /\ storage' = upload_to_gcs(storage, Head(cs[w].todo), cs[w].stream_id,
                                "frames", cs[w].cyc)
    /\ cs' = [cs EXCEPT ![w] = after_frames(
                 [cs[w] EXCEPT !.todo = Tail(@),
                               !.up_frames = @ + 1,
                               !.uploads = Append(@, ObjectName(cs[w].stream_id,
                                                     "frames", Head(cs[w].todo)))])]
    /\ UNCHANGED <<stream_url, scratch, children, nextCycle,
                   signing_credentials, lastSign>>

\* one pass of the frames loop: upload_to_gcs raises
upload_frame_fails(w) ==
    /\ cs[w].pc = "frames"
    /\ cs[w].todo # <<>>
    /\ cs' = [cs EXCEPT ![w] = process_failed]
    /\ UNCHANGED <<stream_url, storage, scratch, children, nextCycle,
                   signing_credentials, lastSign>>

\* one pass of the audio loop: upload_to_gcs succeeds
upload_audio(w) ==
    /\ cs[w].pc = "audio"
    /\ cs[w].todo # <<>>
    /\ storage' = upload_to_gcs(storage, Head(cs[w].todo), cs[w].stream_id,
                                "audio", cs[w].cyc)
    /\ cs' = [cs EXCEPT ![w] = after_audio(
                 [cs[w] EXCEPT !.todo = Tail(@),
                               !.up_audio = @ + 1,
                               !.uploads = Append(@, ObjectName(cs[w].stream_id,
                                                     "audio", Head(cs[w].todo)))])]
    /\ UNCHANGED <<stream_url, scratch, children, nextCycle,
                   signing_credentials, lastSign>>

\* one pass of the audio loop: upload_to_gcs raises
upload_audio_fails(w) ==
    /\ cs[w].pc = "audio"
    /\ cs[w].todo # <<>>
    /\ cs' = [cs EXCEPT ![w] = process_failed]
    /\ UNCHANGED <<stream_url, storage, scratch, children, nextCycle,
                   signing_credentials, lastSign>>

\* shutil.rmtree, return (up_frames, up_audio); process_stream redirects
capture_return(w) ==
    /\ cs[w].pc = "rmtree"
    /\ scratch' = scratch \ {cs[w].cyc}
    /\ cs' = [cs EXCEPT ![w] = Responded(302)]
    /\ UNCHANGED <<stream_url, storage, children, nextCycle,
                   signing_credentials, lastSign>>

\* what the end of a request tells the caller and the log about the uploads
\* of its cycle: the line "PROCESS end ... uploaded_frames=%s uploaded_audio=%s"
\* on a return, "PROCESS failed"/"Processing failed: e" with the text of the
\* exception and no counts on an exception
process_report(sess, status) ==
    IF status = 302
    THEN [outcome |-> "end", counts |-> <<sess.up_frames, sess.up_audio>>]
    ELSE [outcome |-> "failed", counts |-> <<>>]

\* ---- local file names

\* "%d" % n: the decimal digits of n
RECURSIVE decimal(_)
decimal(n) == IF n < 10 THEN <<n>> ELSE Append(decimal(n \div 10), n % 10)

\* "%0<width>d": zero-padded to at least width digits, never truncated
RECURSIVE zero_padded(_, _)
zero_padded(digits, width) ==
    IF Len(digits) >= width THEN digits
    ELSE zero_padded(<<0>> \o digits, width)

\* the name ffmpeg gives the file of a sequence number in the directory of kind
file_name(kind, n) ==
    IF kind = "frames"
    THEN [stem |-> "frame_", digits |-> zero_padded(decimal(n), FRAME_DIGITS),
          ext |-> ".webp"]
    ELSE [stem |-> "chunk_", digits |-> zero_padded(decimal(n), CHUNK_DIGITS),
          ext |-> ".ogg"]

\* name.endswith(".webp") in the frames loop, (".ogg", ".mp3", ".m4a") in the
\* audio loop
recognised(kind, name) ==
    IF kind = "frames" THEN name.ext = ".webp"
    ELSE name.ext \in {".ogg", ".mp3", ".m4a"}

\* the order of sorted() on the digit part of two names of one directory: the
\* first differing digit decides, and a name that ends first ("." sorts below
\* every digit) comes first
RECURSIVE digits_before(_, _)
digits_before(p, q) ==
    IF p = <<>> THEN q # <<>>
    ELSE IF q = <<>> THEN FALSE
    ELSE IF Head(p) # Head(q) THEN Head(p) < Head(q)
    ELSE digits_before(Tail(p), Tail(q))

name_before(a, b) == digits_before(a.digits, b.digits)

\* ---- signed URLs

\* (mutant) a credential is built on every call
rebuild_signing_credentials(cached) == [cred |-> "valid", built |-> TRUE]

\* _build_signing_credentials: the cached global is returned whenever it is set
build_signing_credentials(cached) ==
    IF cached # "none"
    THEN [cred |-> cached, built |-> FALSE]
    ELSE [cred |-> "valid", built |-> TRUE]

SeqOf(stream_id, kind, q) ==
    [i \in DOMAIN q |-> ObjectName(stream_id, kind, q[i])]

\* _list_signed: list and sort the frames, then the audio, of the stream
list_signed(w, s) ==
    /\ cs[w].pc = "idle"
    /\ cs' = [cs EXCEPT ![w] = [IdleSession EXCEPT
                !.pc = "sign", !.stream_id = s,
                !.todo = SeqOf(s, "frames",
                               sorted({n[3] : n \in Listed(storage, s, "frames")}))
                         \o SeqOf(s, "audio",
                               sorted({n[3] : n \in Listed(storage, s, "audio")}))]]
    /\ UNCHANGED <<stream_url, storage, scratch, children, nextCycle,
                   signing_credentials, lastSign>>

\* one _sign call of _list_signed
sign(w) ==
    /\ cs[w].pc = "sign"
    /\ cs[w].todo # <<>>
    /\ LET r == build_signing_credentials(signing_credentials[w])
       IN /\ signing_credentials' = [signing_credentials EXCEPT ![w] = r.cred]
          /\ lastSign' = [lastSign EXCEPT ![w] =
                            [called |-> TRUE, cached |-> signing_credentials[w],
                             built |-> r.built]]
    /\ cs' = [cs EXCEPT ![w].todo = Tail(@)]
    /\ UNCHANGED <<stream_url, storage, scratch, children, nextCycle>>

\* _list_signed returns its two lists of urls
list_signed_done(w) ==
    /\ cs[w].pc = "sign"
    /\ cs[w].todo = <<>>
    /\ cs' = [cs EXCEPT ![w] = Responded(200)]
    /\ UNCHANGED <<stream_url, storage, scratch, children, nextCycle,
                   signing_credentials, lastSign>>

\* time passes: the cached credential of a worker expires
expire(w) ==
    /\ signing_credentials[w] = "valid"
    /\ signing_credentials' = [signing_credentials EXCEPT ![w] = "expired"]
    /\ UNCHANGED <<stream_url, storage, scratch, children, nextCycle, cs, lastSign>>

\* an idle worker process is replaced: its module globals start afresh
restart(w) ==
    /\ cs[w].pc = "idle"
    /\ cs' = [cs EXCEPT ![w] = IdleSession]
    /\ signing_credentials' = [signing_credentials EXCEPT ![w] = "none"]
    /\ lastSign' = [lastSign EXCEPT ![w] = NoSign]
    /\ UNCHANGED <<stream_url, storage, scratch, children, nextCycle>>

\* ---- specifications

Next ==
    \/ admin
    \/ \E w \in Workers, s \in StreamIds : process_stream_no_url(w, s)
    \/ \E w \in Workers, s \in StreamIds : process_stream(w, s)
    \/ \E w \in Workers, ok \in BOOLEAN, streams \in 0..1 : ffprobe_exit(w, ok, streams)
    \/ \E w \in Workers : ffprobe_timeout(w)
    \/ \E w \in Workers : ffmpeg_spawn(w)
    \/ \E w \in Workers : ffmpeg_spawn_fails(w)
    \/ \E w \in Workers, rc \in 0..1, k \in 0..MaxFrames, a \in 0..MaxAudio :
          ffmpeg_exit(w, rc, k, a)
    \/ \E w \in Workers : upload_frame(w)
    \/ \E w \in Workers : upload_frame_fails(w)
    \/ \E w \in Workers : upload_audio(w)
    \/ \E w \in Workers : upload_audio_fails(w)
    \/ \E w \in Workers : capture_return(w)
    \/ \E w \in Workers : restart(w)

Spec == Init /\ [][Next]_vars

\* the bucket after an earlier cycle uploaded i frames and j audio segments
StoredAfter(i, j) ==
    [n \in {ObjectName(1, "frames", x) : x \in START_NUMBER .. (START_NUMBER + i - 1)}
           \cup {ObjectName(1, "audio", y) : y \in SEGMENT_START .. (SEGMENT_START + j - 1)}
        |-> 1]

SignInit ==
    /\ stream_url = [s \in StreamIds |-> ""]
    /\ \E i \in 0..MaxFrames, j \in 0..MaxAudio : storage = StoredAfter(i, j)
    /\ scratch = {}
    /\ children = {}
    /\ nextCycle = 1
    /\ cs = [w \in Workers |-> IdleSession]
    /\ signing_credentials = [w \in Workers |-> "none"]
    /\ lastSign = [w \in Workers |-> NoSign]

SignNext ==
    \/ \E w \in Workers, s \in StreamIds : list_signed(w, s)
    \/ \E w \in Workers : sign(w)
    \/ \E w \in Workers : list_signed_done(w)
    \/ \E w \in Workers : expire(w)
    \/ \E w \in Workers : restart(w)

SignSpec == SignInit /\ [][SignNext]_vars

\* ---- properties

InCycle == {"ffprobe", "ffmpeg", "ffmpeg_wait", "frames", "audio", "rmtree"}
ProbeFailures == {"error", "timeout"}
AUDIO_EXPLICIT == "0:a:0"
AUDIO_UNQUALIFIED == "a"

Range(q) == {q[i] : i \in DOMAIN q}

\* the highest sequence number stored for a stream and kind, 0 when there is none
MaxStored(st, stream_id, kind) ==
    LET S == {n[3] : n \in Listed(st, stream_id, kind)}
    IN IF S = {} THEN 0 ELSE CHOOSE x \in S : \A y \in S : y <= x

FramesUploaded(sess) == {n \in Range(sess.uploads) : n[2] = "frames"}

FramesProduced(sess) ==
    {ObjectName(sess.stream_id, "frames", x) : x \in sess.frames_dir}

\* C1: no step changes or removes a stored object: an object a cycle uploaded
\* keeps its bytes whatever later cycles upload.
C1_UploadedNeverOverwritten ==
    [][\A n \in DOMAIN storage : n \in DOMAIN storage' /\ storage'[n] = storage[n]]_vars

\* C2: the extraction command of a cycle numbers its frames from M + 1, M the
\* highest frame number stored for the stream when the command is built, and the
\* cycle that returns has uploaded exactly the k frames M+1 .. M+k it extracted.
C2_FramesNumberedFromMaxPlusOne ==
    [][\A w \in Workers :
        /\ (cs[w].pc = "ffmpeg" /\ cs'[w].pc = "ffmpeg_wait")
              => cs'[w].cmds[Len(cs'[w].cmds)].start_number
                    = MaxStored(storage, cs[w].stream_id, "frames") + 1
        /\ (cs[w].pc # "rmtree" /\ cs'[w].pc = "rmtree")
              => LET c == cs'[w].cmds[Len(cs'[w].cmds)]
                     k == Cardinality(cs'[w].frames_dir)
                 IN FramesUploaded(cs'[w]) =
                      {ObjectName(cs'[w].stream_id, "frames", x) :
                          x \in c.start_number .. (c.start_number + k - 1)}
      ]_vars

\* C3: a cycle whose ffmpeg run exited non-zero ends with nothing uploaded and
\* with the failure response (500), never with the redirect of a success.
C3_ExtractionFailureAborts ==
    [][\A w \in Workers :
        (/\ cs[w].pc \in InCycle
         /\ cs'[w].pc = "idle"
         /\ \E i \in DOMAIN cs[w].proc : cs[w].proc[i] # 0)
        => (cs[w].uploads = <<>> /\ cs'[w].response = 500)
      ]_vars

\* C4: the step that ends a cycle whose scratch directory exists leaves no
\* scratch directory of that cycle behind.
C4_ScratchRemovedAtEnd ==
    [][\A w \in Workers :
        (/\ cs[w].pc \in InCycle
         /\ cs'[w].pc = "idle"
         /\ cs[w].cyc \in scratch)
        => cs[w].cyc \notin scratch'
      ]_vars

\* C5: a child process is alive only while the cycle that spawned it is waiting
\* for it: once the cycle has moved on or returned, its children are gone.
C5_NoChildOutlivesItsWait ==
    \A c \in children :
        \E w \in Workers :
            /\ cs[w].cyc = c.cyc
            /\ cs[w].pc = (IF c.prog = "ffprobe" THEN "ffprobe" ELSE "ffmpeg_wait")

\* C5 witness: a cycle whose probe timed out is about to return, after its ffmpeg
\* run, and no child of it is alive.
C5_Witness ==
    \E w \in Workers :
        /\ cs[w].pc = "rmtree"
        /\ cs[w].probe = "timeout"
        /\ Len(cs[w].proc) = 1
        /\ \A c \in children : c.cyc # cs[w].cyc

\* C6: every live child process was started with a timeout.
C6_EverySubprocessHasTimeout ==
    \A c \in children : c.timeout # NO_TIMEOUT

\* C7, in a state: after a probe that failed or timed out has_audio is false, the
\* cycle is on its way through ffmpeg and the frames loop, the command it runs is
\* the frames-only one, and at its return every produced frame is uploaded and
\* the audio count is 0.
C7_AfterProbeFailure(sess) ==
    sess.probe \in ProbeFailures =>
        /\ ~sess.has_audio
        /\ sess.pc \in {"ffmpeg", "ffmpeg_wait", "frames", "rmtree"}
        /\ sess.pc # "ffmpeg" => sess.cmds = <<build_cmd(FALSE)>>
        /\ sess.pc = "rmtree" =>
              /\ sess.up_audio = 0
              /\ sess.up_frames = Cardinality(sess.frames_dir)
              /\ FramesUploaded(sess) = FramesProduced(sess)
              /\ Range(sess.uploads) = FramesProduced(sess)

\* C7, over the steps of a cycle: the end of the probe, by exit, failure or
\* timeout, always leads on to ffmpeg; every state after a failed probe is as
\* C7_AfterProbeFailure says; the return of such a cycle answers 302 with every
\* produced frame stored.
C7_ProbeFailureIsFramesOnly ==
    [][\A w \in Workers :
        /\ (cs[w].pc = "ffprobe" /\ cs'[w].pc # "ffprobe") => cs'[w].pc = "ffmpeg"
        /\ (cs[w].pc = "idle" /\ nextCycle' # nextCycle /\ cs'[w].cyc # cs[w].cyc)
              => cs'[w].pc \in {"ffprobe", "ffmpeg"}
        /\ (cs[w].pc = "idle" /\ nextCycle' # nextCycle /\ cs'[w].pc = "idle")
              => cs'[w] = cs[w]
        /\ C7_AfterProbeFailure(cs'[w])
        /\ (cs[w].probe \in ProbeFailures /\ cs[w].pc = "rmtree"
              /\ cs'[w] # cs[w])
              => (cs'[w].response = 302
                  /\ FramesProduced(cs[w]) \subseteq DOMAIN storage)
      ]_vars

\* C7 witness: a cycle whose probe failed has uploaded a frame and is at its return.
C7_Witness ==
    \E w \in Workers :
        /\ cs[w].pc = "rmtree"
        /\ cs[w].probe \in ProbeFailures
        /\ cs[w].up_frames >= 1

\* C8: a cycle whose ffmpeg run with the explicit audio index failed has, by its
\* return, made exactly one further attempt with the unqualified audio form, and
\* has extracted the frames once.
C8_AudioRetriedOnceUnqualified ==
    \A w \in Workers :
        (/\ cs[w].pc = "rmtree"
         /\ \E i \in DOMAIN cs[w].proc :
                cs[w].cmds[i].aud = AUDIO_EXPLICIT /\ cs[w].proc[i] # 0)
        => /\ Cardinality({i \in DOMAIN cs[w].cmds :
                              cs[w].cmds[i].aud = AUDIO_UNQUALIFIED}) = 1
           /\ Cardinality({i \in DOMAIN cs[w].cmds :
                              cs[w].cmds[i].vid # "none"}) = 1

\* C9: two workers are never inside capture cycles of the same stream at once.
C9_CyclesOfAStreamNeverOverlap ==
    \A w1 \in Workers, w2 \in Workers :
        (w1 # w2 /\ cs[w1].pc \in InCycle /\ cs[w2].pc \in InCycle)
        => cs[w1].stream_id # cs[w2].stream_id

\* C10: in a worker process the first _sign call builds the credential and it is
\* cached from then on; a call builds one only when none was cached or the cached
\* one had expired, never when a valid one was cached.
C10_CredentialBuiltOnlyWhenNeeded ==
    \A w \in Workers :
        /\ lastSign[w].built => lastSign[w].cached \in {"none", "expired"}
        /\ (lastSign[w].called /\ lastSign[w].cached = "none") => lastSign[w].built
        /\ lastSign[w].called => signing_credentials[w] # "none"
        /\ ~lastSign[w].called => signing_credentials[w] = "none"

\* C10 witness: a _sign call found a valid cached credential and reused it.
C10_Witness ==
    \E w \in Workers :
        /\ lastSign[w].called
        /\ lastSign[w].cached = "valid"
        /\ ~lastSign[w].built
        /\ signing_credentials[w] = "valid"

\* C11: when an upload raises after the cycle has uploaded at least one asset,
\* the request ends with a report of partial success that carries the counts of
\* the assets already uploaded, not with a plain failure.
C11_UploadFailureReportsPartialSuccess ==
    [][\A w \in Workers :
           ( /\ cs[w].pc \in {"frames", "audio"}
             /\ cs[w].uploads # <<>>
             /\ cs'[w].pc = "idle" )
           => LET report == process_report(cs[w], cs'[w].response)
              IN /\ report.outcome # "failed"
                 /\ report.counts = <<cs[w].up_frames, cs[w].up_audio>>]_vars

\* the local files a cycle's ffmpeg produced, as <<kind, sequence number>>
Produced(sess) ==
    {<<"frames", x>> : x \in sess.frames_dir}
        \cup {<<"audio", x>> : x \in sess.audio_dir}

\* the positions of the cycle's uploads that went to objects of kind
UploadsOf(sess, kind) == {i \in DOMAIN sess.uploads : sess.uploads[i][2] = kind}

\* C12: when a cycle completes (its uploads are over and capture_stream is about
\* to return), the returned pair (up_frames, up_audio) counts the frame objects
\* and the audio objects the cycle uploaded; every produced local file with a
\* recognised extension was uploaded exactly once and nothing else was; the
\* uploads of one kind went in ascending filename order; every frame was
\* uploaded before any audio.
C12_CompletedCycleUploadsAllInOrder ==
    \A w \in Workers :
        cs[w].pc = "rmtree" =>
            LET sess == cs[w]
                u == sess.uploads
                wanted == {f \in Produced(sess) :
                              recognised(f[1], file_name(f[1], f[2]))}
            IN /\ sess.up_frames = Cardinality(UploadsOf(sess, "frames"))
               /\ sess.up_audio = Cardinality(UploadsOf(sess, "audio"))
               /\ \A f \in wanted :
                      Cardinality({i \in DOMAIN u :
                          u[i] = ObjectName(sess.stream_id, f[1], f[2])}) = 1
               /\ \A i \in DOMAIN u :
                      /\ u[i][1] = sess.stream_id
                      /\ <<u[i][2], u[i][3]>> \in wanted
               /\ \A i, j \in DOMAIN u :
                      (i < j /\ u[i][2] = u[j][2])
                          => name_before(file_name(u[i][2], u[i][3]),
                                         file_name(u[j][2], u[j][3]))
               /\ \A i \in UploadsOf(sess, "frames") :
                      \A j \in UploadsOf(sess, "audio") : i < j

\* C12 witness: a cycle completes having uploaded two frames and then an audio
\* segment.
C12_Witness ==
    \E w \in Workers :
        /\ cs[w].pc = "rmtree"
        /\ cs[w].up_frames >= 2
        /\ cs[w].up_audio >= 1
        /\ Len(cs[w].uploads) >= 3

====
